---- MODULE Spec2Model ----
(***************************************************************************)
(* goharvest: the OAI-PMH pagination engine (Harvest, HarvestAll,          *)
(* HarvestAllDC over harvestWithParser / performListRecordsRequest) and    *)
(* the response abstraction it reads (GetRecords, GetResumptionToken).     *)
(*                                                                         *)
(* Conventions.  A Go pointer or error is a sequence of length 0 (nil) or  *)
(* 1 (the value pointed to).  A Go string built by concatenation or by     *)
(* fmt.Errorf is the sequence of its pieces, so that "prefix: " + x keeps  *)
(* both parts visible.  A request URL is the sequence of its query         *)
(* parameters <<key, value>> in the order the code appends them.           *)
(***************************************************************************)
EXTENDS Naturals, Sequences, FiniteSets, TLC

\* ------------------------------------------------------------------ bounds

\* The server answers at most MaxPages requests with a continuation token.
MaxPages == 3
\* A page carries at most MaxRecords record elements.
MaxRecords == 2

\* ------------------------------------------------------------------ values

Nil == <<>>
Ptr(x) == <<x>>

FormatMARCXML == "marcxml"
FormatOAIDC == "oai_dc"

\* Format tags a caller may pass: the two registered ones, an unknown one, "".
Prefixes == {"marcxml", "oai_dc", "unknown-format", ""}

\* Date bounds a caller may pass (a bound may be the empty string).
Froms == {"", "2024-01-01"}
Untils == {"", "2024-12-31"}
DateRanges == {Nil} \cup {Ptr([From |-> f, Until |-> u]) : f \in Froms, u \in Untils}

\* Non-empty continuation tokens the repository may hand out.
Tokens == {"T1", "T2"}

\* What the metadata element of a record element holds on the wire.
PayloadKinds == {"marc", "dc"}

\* Errors the callback may return, and failures of the transport.
CallbackErrs == {<<"stop harvesting for testing">>}
NetErrs == {<<"connection refused">>}
BadStatus == {"500"}
XMLErrs == {<<"XML syntax error">>}
OAIErrors == {[Code |-> "noRecordsMatch", Message |-> "no records match"],
              [Code |-> "badResumptionToken", Message |-> "bad resumption token"]}

\* fmt.Errorf(prefix + "%w", e): the message is the prefix followed by e's
\* message, and e is kept as the wrapped cause.
Errorf(prefix, e) == Ptr([msg |-> prefix \o e, cause |-> Ptr(e)])
\* fmt.Errorf without %w: a fresh error.
NewError(msg) == Ptr([msg |-> msg, cause |-> Nil])

RECURSIVE SeqsUpTo(_, _)
SeqsUpTo(S, n) ==
  IF n = 0 THEN {<<>>}
  ELSE LET shorter == SeqsUpTo(S, n - 1)
       IN shorter \cup {Append(s, x) : s \in {t \in shorter : Len(t) = n - 1}, x \in S}

\* ------------------------------------------------------------------ wire

\* The response bodies the repository may send.  more = FALSE is the server
\* past its last page: it no longer hands out a non-empty token.
TokenElems(more) ==
  {Nil, Ptr("")} \cup (IF more THEN {Ptr(t) : t \in Tokens} ELSE {})

ListRecordsElems(more) ==
  {Nil} \cup {Ptr([records |-> rs, resumptionToken |-> tk]) :
                rs \in SeqsUpTo(PayloadKinds, MaxRecords), tk \in TokenElems(more)}

Bodies(more) ==
  {[wellFormed |-> FALSE, xmlErr |-> x, error |-> Nil, listRecords |-> Nil,
     getRecord |-> Nil] : x \in XMLErrs}
  \cup {[wellFormed |-> TRUE, xmlErr |-> <<>>, error |-> e, listRecords |-> lr,
          getRecord |-> Nil] :
          e \in {Nil} \cup {Ptr(x) : x \in OAIErrors}, lr \in ListRecordsElems(more)}

\* What c.HTTPClient.Get and io.ReadAll may yield for one request.
Outcomes(more) ==
  {[kind |-> "neterr", e |-> x, status |-> "", body |-> Nil] : x \in NetErrs}
  \cup {[kind |-> "status", e |-> <<>>, status |-> s, body |-> Nil] : s \in BadStatus}
  \cup {[kind |-> "readerr", e |-> x, status |-> "200", body |-> Nil] : x \in NetErrs}
  \cup {[kind |-> "body", e |-> <<>>, status |-> "200", body |-> Ptr(b)] : b \in Bodies(more)}

\* While the server still has pages to give, and at its last page.
OutcomesMore == Outcomes(TRUE)
OutcomesLast == Outcomes(FALSE)

\* ------------------------------------------------------------------ fetch layer

HasKey(url, k) == \E i \in 1..Len(url) : url[i][1] = k
ValueOf(url, k) == url[CHOOSE i \in 1..Len(url) : url[i][1] = k][2]

\* Mutant: the branches in the wrong order, metadataPrefix tested first.
performListRecordsRequestURL_PrefixFirst(metadataPrefix, resumptionToken, dateRange) ==
  LET base == << <<"verb", "ListRecords">> >>
  IN IF metadataPrefix # ""
       THEN LET u1 == Append(base, <<"metadataPrefix", metadataPrefix>>)
                u2 == IF dateRange # Nil /\ dateRange[1].From # ""
                        THEN Append(u1, <<"from", dateRange[1].From>>) ELSE u1
                u3 == IF dateRange # Nil /\ dateRange[1].Until # ""
                        THEN Append(u2, <<"until", dateRange[1].Until>>) ELSE u2
            IN [url |-> u3, err |-> Nil]
     ELSE IF resumptionToken # ""
       THEN [url |-> Append(base, <<"resumptionToken", resumptionToken>>), err |-> Nil]
     ELSE [url |-> <<>>,
           err |-> NewError(<<"either metadataPrefix or resumptionToken must be provided">>)]

\* Mutant: no construction check, the bare URL is sent.
performListRecordsRequestURL_NoCheck(metadataPrefix, resumptionToken, dateRange) ==
  LET base == << <<"verb", "ListRecords">> >>
  IN IF resumptionToken # ""
       THEN [url |-> Append(base, <<"resumptionToken", resumptionToken>>), err |-> Nil]
     ELSE IF metadataPrefix # ""
       THEN LET u1 == Append(base, <<"metadataPrefix", metadataPrefix>>)
                u2 == IF dateRange # Nil /\ dateRange[1].From # ""
                        THEN Append(u1, <<"from", dateRange[1].From>>) ELSE u1
                u3 == IF dateRange # Nil /\ dateRange[1].Until # ""
                        THEN Append(u2, <<"until", dateRange[1].Until>>) ELSE u2
            IN [url |-> u3, err |-> Nil]
     ELSE [url |-> base, err |-> Nil]

\* Mutant: a date bound is appended whenever a date range is given, empty or not.
performListRecordsRequestURL_AlwaysDates(metadataPrefix, resumptionToken, dateRange) ==
  LET base == << <<"verb", "ListRecords">> >>
  IN IF resumptionToken # ""
       THEN [url |-> Append(base, <<"resumptionToken", resumptionToken>>), err |-> Nil]
     ELSE IF metadataPrefix # ""
       THEN LET u1 == Append(base, <<"metadataPrefix", metadataPrefix>>)
                u2 == IF dateRange # Nil
                        THEN Append(u1, <<"from", dateRange[1].From>>) ELSE u1
                u3 == IF dateRange # Nil
                        THEN Append(u2, <<"until", dateRange[1].Until>>) ELSE u2
            IN [url |-> u3, err |-> Nil]
     ELSE [url |-> <<>>,
           err |-> NewError(<<"either metadataPrefix or resumptionToken must be provided">>)]

\* performListRecordsRequest, up to the point where the request is sent: the
\* URL, or the construction error when neither parameter is given.
performListRecordsRequestURL(metadataPrefix, resumptionToken, dateRange) ==
  LET base == << <<"verb", "ListRecords">> >>
  IN IF resumptionToken # ""
       THEN [url |-> Append(base, <<"resumptionToken", resumptionToken>>), err |-> Nil]
     ELSE IF metadataPrefix # ""
       THEN LET u1 == Append(base, <<"metadataPrefix", metadataPrefix>>)
                u2 == IF dateRange # Nil /\ dateRange[1].From # ""
                        THEN Append(u1, <<"from", dateRange[1].From>>) ELSE u1
                u3 == IF dateRange # Nil /\ dateRange[1].Until # ""
                        THEN Append(u2, <<"until", dateRange[1].Until>>) ELSE u2
            IN [url |-> u3, err |-> Nil]
     ELSE [url |-> <<>>,
           err |-> NewError(<<"either metadataPrefix or resumptionToken must be provided">>)]

\* performListRecordsRequest, from the transport's answer on: the body or the error.
performListRecordsRequestRead(o) ==
  IF o.kind = "neterr"
    THEN [body |-> Nil, err |-> Errorf(<<"failed to fetch OAI data: ">>, o.e)]
  ELSE IF o.status # "200"
    THEN [body |-> Nil, err |-> NewError(<<"unexpected status code: ", o.status>>)]
  ELSE IF o.kind = "readerr"
    THEN [body |-> Nil, err |-> Errorf(<<"failed to read response body: ">>, o.e)]
  ELSE [body |-> o.body, err |-> Nil]

\* xml.Unmarshal into OAIPMHResponse: a record's Metadata.MARCXML is set only
\* when the metadata element holds a MARCXML record element.  The pointer is
\* to the value parsed from record element At of the page (0: the GetRecord
\* element).
UnmarshalMARCXML(b) ==
  [Type |-> "OAIPMHResponse",
   Error |-> b.error,
   GetRecord |->
     IF b.getRecord = Nil THEN Nil
     ELSE Ptr([Record |-> [Payload |-> IF b.getRecord[1] = "marc"
                                         THEN Ptr([Type |-> "MARCRecord", At |-> 0])
                                         ELSE Nil]]),
   ListRecords |->
     IF b.listRecords = Nil THEN Nil
     ELSE LET lr == b.listRecords[1]
          IN Ptr([Records |-> [i \in 1..Len(lr.records) |->
                                 [Payload |-> IF lr.records[i] = "marc"
                                                THEN Ptr([Type |-> "MARCRecord", At |-> i])
                                                ELSE Nil]],
                  ResumptionToken |-> IF lr.resumptionToken = Nil THEN Nil
                                      ELSE Ptr([Token |-> lr.resumptionToken[1]])])]

\* xml.Unmarshal into OAIPMHResponseDC: Metadata.DC is set only for a dc element.
UnmarshalDC(b) ==
  [Type |-> "OAIPMHResponseDC",
   Error |-> b.error,
   GetRecord |->
     IF b.getRecord = Nil THEN Nil
     ELSE Ptr([Record |-> [Payload |-> IF b.getRecord[1] = "dc"
                                         THEN Ptr([Type |-> "DublinCore", At |-> 0])
                                         ELSE Nil]]),
   ListRecords |->
     IF b.listRecords = Nil THEN Nil
     ELSE LET lr == b.listRecords[1]
          IN Ptr([Records |-> [i \in 1..Len(lr.records) |->
                                 [Payload |-> IF lr.records[i] = "dc"
                                                THEN Ptr([Type |-> "DublinCore", At |-> i])
                                                ELSE Nil]],
                  ResumptionToken |-> IF lr.resumptionToken = Nil THEN Nil
                                      ELSE Ptr([Token |-> lr.resumptionToken[1]])])]

OAIError(e) == NewError(<<"OAI-PMH error [", e.Code, "]: ", e.Message>>)

\* Mutant: the error element of the envelope is not looked at.
listRecordsRequestMARCXML_NoErrorCheck(o) ==
  LET r == performListRecordsRequestRead(o)
  IN IF r.err # Nil THEN [resp |-> Nil, err |-> r.err]
     ELSE IF ~r.body[1].wellFormed
       THEN [resp |-> Nil, err |-> Errorf(<<"failed to parse XML: ">>, r.body[1].xmlErr)]
     ELSE [resp |-> Ptr(UnmarshalMARCXML(r.body[1])), err |-> Nil]

\* listRecordsRequestMARCXML after the request is sent: read, parse, and turn
\* an error element into an error.
listRecordsRequestMARCXML(o) ==
  LET r == performListRecordsRequestRead(o)
  IN IF r.err # Nil THEN [resp |-> Nil, err |-> r.err]
     ELSE IF ~r.body[1].wellFormed
       THEN [resp |-> Nil, err |-> Errorf(<<"failed to parse XML: ">>, r.body[1].xmlErr)]
     ELSE IF UnmarshalMARCXML(r.body[1]).Error # Nil
       THEN [resp |-> Nil, err |-> OAIError(UnmarshalMARCXML(r.body[1]).Error[1])]
     ELSE [resp |-> Ptr(UnmarshalMARCXML(r.body[1])), err |-> Nil]

\* Mutant: the Dublin Core parser does not look at the error element.
listRecordsRequestDC_NoErrorCheck(o) ==
  LET r == performListRecordsRequestRead(o)
  IN IF r.err # Nil THEN [resp |-> Nil, err |-> r.err]
     ELSE IF ~r.body[1].wellFormed
       THEN [resp |-> Nil, err |-> Errorf(<<"failed to parse XML: ">>, r.body[1].xmlErr)]
     ELSE [resp |-> Ptr(UnmarshalDC(r.body[1])), err |-> Nil]

\* listRecordsRequestDC after the request is sent.
listRecordsRequestDC(o) ==
  LET r == performListRecordsRequestRead(o)
  IN IF r.err # Nil THEN [resp |-> Nil, err |-> r.err]
     ELSE IF ~r.body[1].wellFormed
       THEN [resp |-> Nil, err |-> Errorf(<<"failed to parse XML: ">>, r.body[1].xmlErr)]
     ELSE IF UnmarshalDC(r.body[1]).Error # Nil
       THEN [resp |-> Nil, err |-> OAIError(UnmarshalDC(r.body[1]).Error[1])]
     ELSE [resp |-> Ptr(UnmarshalDC(r.body[1])), err |-> Nil]

\* ------------------------------------------------------------------ response abstraction

\* The range loop over ListRecords.Records: the payload pointers that are set.
RECURSIVE ListedPayloads(_)
ListedPayloads(records) ==
  IF records = <<>> THEN <<>>
  ELSE (IF Head(records).Payload # Nil THEN <<Head(records).Payload[1]>> ELSE <<>>)
       \o ListedPayloads(Tail(records))

\* Mutant: the handles of the page in reverse order.
GetRecords_Reversed(o) ==
  LET listed == IF o.ListRecords = Nil THEN <<>>
                ELSE ListedPayloads(o.ListRecords[1].Records)
      all == IF o.GetRecord # Nil /\ o.GetRecord[1].Record.Payload # Nil
               THEN Append(listed, o.GetRecord[1].Record.Payload[1])
             ELSE listed
  IN [i \in 1..Len(all) |-> all[Len(all) + 1 - i]]

\* Mutant: the GetRecord payload is not looked at.
GetRecords_ListOnly(o) ==
  IF o.ListRecords = Nil THEN <<>> ELSE ListedPayloads(o.ListRecords[1].Records)

\* OAIPMHResponse.GetRecords / OAIPMHResponseDC.GetRecords: the handles
\* (payload pointers) of the ListRecords records whose format payload was
\* parsed, in document order, then that of the GetRecord record if parsed.
GetRecords(o) ==
  LET listed == IF o.ListRecords = Nil THEN <<>>
                ELSE ListedPayloads(o.ListRecords[1].Records)
  IN IF o.GetRecord # Nil /\ o.GetRecord[1].Record.Payload # Nil
       THEN Append(listed, o.GetRecord[1].Record.Payload[1])
     ELSE listed

\* Mutant: no token is ever reported.
GetResumptionToken_Never(o) == ""

GetResumptionToken(o) ==
  IF o.ListRecords # Nil /\ o.ListRecords[1].ResumptionToken # Nil
    THEN o.ListRecords[1].ResumptionToken[1].Token
  ELSE ""

HasError(o) == o.Error # Nil

GetError(o) == o.Error

\* MARCRecord.GetFormat / DublinCore.GetFormat, by the handle's dynamic type.
GetFormat(h) == IF h.Type = "MARCRecord" THEN FormatMARCXML ELSE FormatOAIDC

\* MARCRecord.ExtractMetadata / DublinCore.ExtractMetadata: the projection of
\* the handle, here its dynamic type and the handle it was made from.
ExtractMetadata(h) ==
  IF h.Type = "MARCRecord" THEN Ptr([Type |-> "BookMetadata", Of |-> h.At])
  ELSE Ptr([Type |-> "DCMetadata", Of |-> h.At])

\* The range loop of ExtractAllBookMetadata / ExtractAllDCMetadata.
RECURSIVE ExtractAllLoop(_)
ExtractAllLoop(records) ==
  IF records = <<>> THEN <<>>
  ELSE (IF Head(records).Payload # Nil /\ ExtractMetadata(Head(records).Payload[1]) # Nil
          THEN <<ExtractMetadata(Head(records).Payload[1])>>
          ELSE <<>>)
       \o ExtractAllLoop(Tail(records))

\* OAIPMHResponse.ExtractAllBookMetadata / OAIPMHResponseDC.ExtractAllDCMetadata.
ExtractAllMetadata(o) ==
  LET listed == IF o.ListRecords = Nil THEN <<>> ELSE ExtractAllLoop(o.ListRecords[1].Records)
  IN listed \o (IF o.GetRecord = Nil THEN <<>> ELSE ExtractAllLoop(<<o.GetRecord[1].Record>>))

\* ------------------------------------------------------------------ engine

\* Mutant: the default case falls through to the MARCXML parser.
HarvestDispatch_DefaultMARC(metadataPrefix) ==
  IF metadataPrefix = FormatOAIDC THEN Ptr("listRecordsRequestDC")
  ELSE Ptr("listRecordsRequestMARCXML")

\* Mutant: the two cases of the switch exchanged.
HarvestDispatch_Swapped(metadataPrefix) ==
  IF metadataPrefix = FormatMARCXML THEN Ptr("listRecordsRequestDC")
  ELSE IF metadataPrefix = FormatOAIDC THEN Ptr("listRecordsRequestMARCXML")
  ELSE Nil

\* Harvest's switch on the format tag: the parser it selects, or none.
HarvestDispatch(metadataPrefix) ==
  IF metadataPrefix = FormatMARCXML THEN Ptr("listRecordsRequestMARCXML")
  ELSE IF metadataPrefix = FormatOAIDC THEN Ptr("listRecordsRequestDC")
  ELSE Nil

UnsupportedFormat(metadataPrefix) ==
  NewError(<<"unsupported metadata format: ", metadataPrefix>>)

\* parser(...) of the loop, after the request is sent.
CallParser(p, o) ==
  IF p = "listRecordsRequestMARCXML" THEN listRecordsRequestMARCXML(o)
  ELSE listRecordsRequestDC(o)

\* Mutant: the loop wraps the fetch layer's error.
ReturnFetchError_Wrapped(e) == Errorf(<<"harvest error: ">>, e[1].msg)

\* harvestWithParser: `if err != nil { return err }`.
ReturnFetchError(e) == e

\* Mutant: the callback's error is returned as it is.
ReturnCallbackError_Unwrapped(e) == NewError(e)

\* harvestWithParser: `return fmt.Errorf("callback error: %w", err)`.
ReturnCallbackError(e) == Errorf(<<"callback error: ">>, e)

\* Mutant: the loop stops after the first page whatever its token.
AfterCallback_StopsEarly(token, curToken, curRange) ==
  [pc |-> "Done", resumptionToken |-> curToken, dateRange |-> curRange]

\* Mutant: the token of the first page is kept for every later request.
AfterCallback_KeepsFirstToken(token, curToken, curRange) ==
  IF token = ""
    THEN [pc |-> "Done", resumptionToken |-> curToken, dateRange |-> curRange]
  ELSE [pc |-> "Continuing",
        resumptionToken |-> IF curToken = "" THEN token ELSE curToken,
        dateRange |-> Nil]

\* Mutant: the test of the token is inverted.
AfterCallback_Inverted(token, curToken, curRange) ==
  IF token # ""
    THEN [pc |-> "Done", resumptionToken |-> curToken, dateRange |-> curRange]
  ELSE [pc |-> "Continuing", resumptionToken |-> token, dateRange |-> Nil]

\* Mutant: the loop also stops when a page repeats the token it was asked with.
AfterCallback_StopsOnRepeat(token, curToken, curRange) ==
  IF token = "" \/ token = curToken
    THEN [pc |-> "Done", resumptionToken |-> curToken, dateRange |-> curRange]
  ELSE [pc |-> "Continuing", resumptionToken |-> token, dateRange |-> Nil]

\* harvestWithParser after the callback returned nil: stop on an empty token,
\* else keep the token and drop the date range.
AfterCallback(token, curToken, curRange) ==
  IF token = ""
    THEN [pc |-> "Done", resumptionToken |-> curToken, dateRange |-> curRange]
  ELSE [pc |-> "Continuing", resumptionToken |-> token, dateRange |-> Nil]

VARIABLES
  pc,               \* Init, Fetching, Delivering, Continuing, Done, Failed
  entry,            \* the entry point called: Harvest, HarvestAll, HarvestAllDC
  metadataPrefix,   \* argument
  dateRangeArg,     \* argument (Harvest only)
  parser,           \* the fetch-and-parse function the loop calls
  resumptionToken,  \* local of the loop
  dateRange,        \* local of the loop
  resp,             \* the page of the current iteration (Nil outside its scope)
  err,              \* the returned error (Nil: nil or not returned yet)
  inflight,         \* requests sent and not yet answered
  requests,         \* every URL sent, in order
  served,           \* token of every page the fetch layer returned, in order
  delivered,        \* token of every page the callback has handled, in order
  servedRecords,    \* records of the pages the fetch layer returned
  observedRecords,  \* records the callback has counted
  lastOutcome,      \* the kind of the latest answer and its error element
  fetchErr,         \* the error the fetch layer produced
  cbErr,            \* the error the callback returned
  pin,              \* the input of a library function called on its own
  pop,              \* the function last called on it ("" before any call)
  pargs,            \* the arguments of that call besides the input
  pout,             \* the results of the calls so far, in order
  peer              \* a second call made beside the first (Nil: none)

\* The state of the first call.
cvars == <<pc, entry, metadataPrefix, dateRangeArg, parser, resumptionToken, dateRange,
           resp, err, inflight, requests, served, delivered, servedRecords,
           observedRecords, lastOutcome, fetchErr, cbErr>>

evars == <<cvars, peer>>

pvars == <<pin, pop, pargs, pout>>

vars == <<evars, pvars>>

\* No call of an entry point has been made.
EngineIdle ==
  /\ pc = "Init"
  /\ entry = ""
  /\ metadataPrefix = ""
  /\ dateRangeArg = Nil
  /\ parser = ""
  /\ resumptionToken = ""
  /\ dateRange = Nil
  /\ resp = Nil
  /\ err = Nil
  /\ inflight = 0
  /\ requests = <<>>
  /\ served = <<>>
  /\ delivered = <<>>
  /\ servedRecords = 0
  /\ observedRecords = 0
  /\ lastOutcome = Nil
  /\ fetchErr = Nil
  /\ cbErr = Nil
  /\ peer = Nil

\* No library function has been called on its own.
PureIdle ==
  /\ pin = Nil
  /\ pop = ""
  /\ pargs = <<>>
  /\ pout = <<>>

Init == EngineIdle /\ PureIdle

\* The loop calls parser(metadataPrefix, resumptionToken, dateRange): the
\* request goes out, or the construction error comes back and is returned.
SendRequest(prefix, token, range) ==
  LET r == performListRecordsRequestURL(prefix, token, range)
  IN IF r.err # Nil
       THEN /\ pc' = "Failed"
            /\ fetchErr' = r.err
            /\ err' = ReturnFetchError(r.err)
            /\ UNCHANGED <<requests, inflight>>
     ELSE /\ pc' = "Fetching"
          /\ requests' = Append(requests, r.url)
          /\ inflight' = inflight + 1
          /\ UNCHANGED <<fetchErr, err>>

Harvest(prefix, range) ==
  /\ pc = "Init"
  /\ UNCHANGED pvars
  /\ entry' = "Harvest"
  /\ metadataPrefix' = prefix
  /\ dateRangeArg' = range
  /\ IF HarvestDispatch(prefix) = Nil
       THEN /\ pc' = "Failed"
            /\ err' = UnsupportedFormat(prefix)
            /\ UNCHANGED <<parser, resumptionToken, dateRange, requests, inflight, fetchErr>>
     ELSE /\ parser' = HarvestDispatch(prefix)[1]
          /\ resumptionToken' = ""
          /\ dateRange' = range
          /\ SendRequest(prefix, "", range)
  /\ UNCHANGED <<resp, served, delivered, servedRecords, observedRecords, lastOutcome, cbErr>>

\* Mutant: the legacy entry point checks the format tag as Harvest does.
HarvestAll_Validates(prefix) ==
  /\ pc = "Init"
  /\ UNCHANGED pvars
  /\ entry' = "HarvestAll"
  /\ metadataPrefix' = prefix
  /\ IF prefix # FormatMARCXML
       THEN /\ pc' = "Failed"
            /\ err' = UnsupportedFormat(prefix)
            /\ UNCHANGED <<parser, resumptionToken, requests, inflight, fetchErr>>
     ELSE /\ parser' = "listRecordsRequestMARCXML"
          /\ resumptionToken' = ""
          /\ SendRequest(prefix, "", Nil)
  /\ UNCHANGED <<dateRangeArg, dateRange, resp, served, delivered, servedRecords,
                 observedRecords, lastOutcome, cbErr>>

HarvestAll(prefix) ==
  /\ pc = "Init"
  /\ UNCHANGED pvars
  /\ entry' = "HarvestAll"
  /\ metadataPrefix' = prefix
  /\ parser' = "listRecordsRequestMARCXML"
  /\ resumptionToken' = ""
  /\ SendRequest(prefix, "", Nil)
  /\ UNCHANGED <<dateRangeArg, dateRange, resp, served, delivered, servedRecords,
                 observedRecords, lastOutcome, cbErr>>

HarvestAllDC(prefix) ==
  /\ pc = "Init"
  /\ UNCHANGED pvars
  /\ entry' = "HarvestAllDC"
  /\ metadataPrefix' = prefix
  /\ parser' = "listRecordsRequestDC"
  /\ resumptionToken' = ""
  /\ SendRequest(prefix, "", Nil)
  /\ UNCHANGED <<dateRangeArg, dateRange, resp, served, delivered, servedRecords,
                 observedRecords, lastOutcome, cbErr>>

\* What the answer was: its kind, and the error element of its envelope.
Envelope(o) ==
  [kind |-> o.kind,
   wellFormed |-> o.body # Nil /\ o.body[1].wellFormed,
   error |-> IF o.body # Nil THEN o.body[1].error ELSE Nil]

\* Mutant: look-ahead prefetch, the request for the next page goes out as soon
\* as a page with a token has been parsed, before the callback has returned.
ReceiveResponse_Prefetch(o) ==
  /\ pc = "Fetching"
  /\ UNCHANGED pvars
  /\ lastOutcome' = Ptr([kind |-> o.kind,
                         wellFormed |-> o.body # Nil /\ o.body[1].wellFormed,
                         error |-> IF o.body # Nil THEN o.body[1].error ELSE Nil])
  /\ LET r == CallParser(parser, o)
     IN IF r.err # Nil
          THEN /\ pc' = "Failed"
               /\ fetchErr' = r.err
               /\ err' = ReturnFetchError(r.err)
               /\ inflight' = inflight - 1
               /\ UNCHANGED <<resp, served, servedRecords, requests>>
        ELSE /\ pc' = "Delivering"
             /\ resp' = r.resp
             /\ served' = Append(served, GetResumptionToken(r.resp[1]))
             /\ servedRecords' = servedRecords + Len(GetRecords(r.resp[1]))
             /\ IF GetResumptionToken(r.resp[1]) # ""
                  THEN /\ requests' = Append(requests,
                            << <<"verb", "ListRecords">>,
                               <<"resumptionToken", GetResumptionToken(r.resp[1])>> >>)
                       /\ inflight' = inflight
                ELSE /\ inflight' = inflight - 1
                     /\ UNCHANGED requests
             /\ UNCHANGED <<fetchErr, err>>
  /\ UNCHANGED <<entry, metadataPrefix, dateRangeArg, parser, resumptionToken, dateRange,
                 delivered, observedRecords, cbErr>>

\* The transport answers the request in flight; the fetch layer reads and
\* parses the answer; on success the loop hands the page to the callback.
ReceiveResponse(o) ==
  /\ pc = "Fetching"
  /\ UNCHANGED pvars
  /\ inflight' = inflight - 1
  /\ lastOutcome' = Ptr(Envelope(o))
  /\ LET r == CallParser(parser, o)
     IN IF r.err # Nil
          THEN /\ pc' = "Failed"
               /\ fetchErr' = r.err
               /\ err' = ReturnFetchError(r.err)
               /\ UNCHANGED <<resp, served, servedRecords>>
        ELSE /\ pc' = "Delivering"
             /\ resp' = r.resp
             /\ served' = Append(served, GetResumptionToken(r.resp[1]))
             /\ servedRecords' = servedRecords + Len(GetRecords(r.resp[1]))
             /\ UNCHANGED <<fetchErr, err>>
  /\ UNCHANGED <<entry, metadataPrefix, dateRangeArg, parser, resumptionToken, dateRange,
                 requests, delivered, observedRecords, cbErr>>

\* The callback, which counts the records of the page it was given, returns.
CallbackReturn(e) ==
  /\ pc = "Delivering"
  /\ UNCHANGED pvars
  /\ delivered' = Append(delivered, GetResumptionToken(resp[1]))
  /\ observedRecords' = observedRecords + Len(GetRecords(resp[1]))
  /\ cbErr' = e
  /\ IF e # Nil
       THEN /\ pc' = "Failed"
            /\ err' = ReturnCallbackError(e[1])
            /\ UNCHANGED <<resumptionToken, dateRange>>
     ELSE LET n == AfterCallback(GetResumptionToken(resp[1]), resumptionToken, dateRange)
          IN /\ pc' = n.pc
             /\ resumptionToken' = n.resumptionToken
             /\ dateRange' = n.dateRange
             /\ UNCHANGED err
  /\ resp' = Nil
  /\ UNCHANGED <<entry, metadataPrefix, dateRangeArg, parser, inflight, requests,
                 served, servedRecords, lastOutcome, fetchErr>>

\* The next iteration of the loop.
NextIteration ==
  /\ pc = "Continuing"
  /\ UNCHANGED pvars
  /\ SendRequest(metadataPrefix, resumptionToken, dateRange)
  /\ UNCHANGED <<entry, metadataPrefix, dateRangeArg, parser, resumptionToken, dateRange,
                 resp, served, delivered, servedRecords, observedRecords, lastOutcome, cbErr>>

\* One call, made alone.
Next ==
  \/ \E p \in Prefixes, d \in DateRanges : Harvest(p, d) /\ UNCHANGED peer
  \/ \E p \in Prefixes : HarvestAll(p) /\ UNCHANGED peer
  \/ \E p \in Prefixes : HarvestAllDC(p) /\ UNCHANGED peer
  \/ \E o \in (IF Len(requests) < MaxPages THEN OutcomesMore ELSE OutcomesLast) :
        ReceiveResponse(o) /\ UNCHANGED peer
  \/ \E e \in {Nil} \cup {Ptr(x) : x \in CallbackErrs} : CallbackReturn(e) /\ UNCHANGED peer
  \/ NextIteration /\ UNCHANGED peer

Spec == Init /\ [][Next]_vars

FairSpec == Spec /\ WF_vars(Next)

\* ------------------------------------------------------------------ claims

Registered == {FormatMARCXML, FormatOAIDC}
Terminal == pc \in {"Done", "Failed"}
ViaHarvest == entry = "Harvest"

\* C1: a Harvest call whose pages all parse and whose callback never fails
\* delivers every page once and in server order (no request for page i+1
\* before page i is delivered), ends only on the first page without a token,
\* returns nil, and its callback has counted exactly the records of the pages.
C1_PaginationDelivers ==
  ViaHarvest =>
    /\ Len(requests) <= Len(delivered) + 1
    /\ Len(delivered) <= Len(served)
    /\ \A i \in 1..Len(delivered) : delivered[i] = served[i]
    /\ \A i \in 1..Len(served) : i < Len(requests) => served[i] # ""
    /\ (pc = "Failed" =>
          fetchErr # Nil \/ cbErr # Nil \/ metadataPrefix \notin Registered)
    /\ (pc = "Done" =>
          /\ err = Nil
          /\ Len(delivered) = Len(requests)
          /\ Len(served) = Len(requests)
          /\ served[Len(served)] = ""
          /\ observedRecords = servedRecords)

\* The end-to-end scenario: two records and token T1, then one record and no token.
C1_Witness ==
  /\ ViaHarvest
  /\ pc = "Done"
  /\ served = <<"T1", "">>
  /\ Len(delivered) = 2
  /\ observedRecords = 3

HasDateParam(url) == HasKey(url, "from") \/ HasKey(url, "until")

\* C2: of the requests of a Harvest call only the first carries
\* metadataPrefix and the supplied non-empty from/until; every later one
\* carries resumptionToken and none of metadataPrefix, from, until.
C2_OneShotDateFilter ==
  ViaHarvest =>
    \A i \in 1..Len(requests) :
      IF i = 1
        THEN /\ HasKey(requests[1], "metadataPrefix")
             /\ ~HasKey(requests[1], "resumptionToken")
             /\ HasKey(requests[1], "from")
                  <=> (dateRangeArg # Nil /\ dateRangeArg[1].From # "")
             /\ HasKey(requests[1], "until")
                  <=> (dateRangeArg # Nil /\ dateRangeArg[1].Until # "")
             /\ HasKey(requests[1], "from")
                  => ValueOf(requests[1], "from") = dateRangeArg[1].From
             /\ HasKey(requests[1], "until")
                  => ValueOf(requests[1], "until") = dateRangeArg[1].Until
      ELSE /\ HasKey(requests[i], "resumptionToken")
           /\ ~HasKey(requests[i], "metadataPrefix")
           /\ ~HasDateParam(requests[i])

C2_Witness ==
  /\ ViaHarvest
  /\ Len(requests) = 3
  /\ dateRangeArg # Nil
  /\ HasKey(requests[1], "from")
  /\ HasKey(requests[1], "until")
  /\ HasKey(requests[3], "resumptionToken")

\* C3: once the callback has returned an error on page n, the call has failed
\* with that error wrapped behind "callback error: ", n requests were sent and
\* n pages delivered, nothing is in flight: no later request, no later callback.
C3_CallbackAbort ==
  cbErr # Nil =>
    /\ pc = "Failed"
    /\ err # Nil
    /\ err[1].msg = <<"callback error: ">> \o cbErr[1]
    /\ err[1].cause = cbErr
    /\ inflight = 0
    /\ Len(requests) = Len(delivered)
    /\ Len(served) = Len(delivered)

\* The callback fails on page 2, which carries a token: page 3 is never fetched.
C3_Witness ==
  /\ ViaHarvest
  /\ cbErr # Nil
  /\ Len(delivered) = 2
  /\ delivered[2] \in Tokens
  /\ pc = "Failed"

ProtocolErrorAnswer ==
  /\ lastOutcome # Nil
  /\ lastOutcome[1].kind = "body"
  /\ lastOutcome[1].wellFormed
  /\ lastOutcome[1].error # Nil

\* C4: when the answer to the first request of a Harvest call is a well-formed
\* envelope with an error element, the call has failed with an error whose
\* message holds the repository's code and message, and no page was delivered.
C4_ProtocolErrorShortCircuits ==
  (ViaHarvest /\ Len(requests) = 1 /\ ProtocolErrorAnswer) =>
    /\ pc = "Failed"
    /\ err # Nil
    /\ err[1].msg = <<"OAI-PMH error [", lastOutcome[1].error[1].Code, "]: ",
                      lastOutcome[1].error[1].Message>>
    /\ delivered = <<>>
    /\ served = <<>>
    /\ cbErr = Nil

C4_Witness ==
  /\ ViaHarvest
  /\ Len(requests) = 1
  /\ ProtocolErrorAnswer
  /\ lastOutcome[1].error[1].Code = "noRecordsMatch"
  /\ pc = "Failed"

\* C5: Harvest with a format tag that is not registered has failed with the
\* unsupported-format error, has sent no request and delivered no page.
C5_UnsupportedFormat ==
  (ViaHarvest /\ metadataPrefix \notin Registered) =>
    /\ pc = "Failed"
    /\ err # Nil
    /\ err[1].msg = <<"unsupported metadata format: ", metadataPrefix>>
    /\ requests = <<>>
    /\ inflight = 0
    /\ lastOutcome = Nil
    /\ delivered = <<>>

C5_Witness ==
  /\ ViaHarvest
  /\ metadataPrefix = "unknown-format"
  /\ pc = "Failed"
  /\ requests = <<>>

\* C6: when the fetch of page n of a Harvest call has failed (transport,
\* status, read, parse or protocol error), the call has failed with exactly
\* the error the fetch layer produced, n-1 pages have been delivered, nothing
\* is in flight and the callback has not failed: no retry, no later request.
C6_FetchFailureFatal ==
  (ViaHarvest /\ fetchErr # Nil) =>
    /\ pc = "Failed"
    /\ err = fetchErr
    /\ cbErr = Nil
    /\ inflight = 0
    /\ Len(requests) = Len(delivered) + 1
    /\ Len(served) = Len(delivered)
    /\ lastOutcome # Nil
    /\ lastOutcome[1].kind = "status" => err[1].msg = <<"unexpected status code: ", "500">>
    /\ lastOutcome[1].kind = "neterr" => err[1].msg[1] = "failed to fetch OAI data: "
    /\ lastOutcome[1].kind = "readerr" => err[1].msg[1] = "failed to read response body: "
    /\ (lastOutcome[1].kind = "body" /\ ~lastOutcome[1].wellFormed)
         => err[1].msg[1] = "failed to parse XML: "
    /\ (lastOutcome[1].kind = "body" /\ lastOutcome[1].wellFormed)
         => err[1].msg[1] = "OAI-PMH error ["

\* The second request is answered by a body that does not parse.
C6_Witness ==
  /\ ViaHarvest
  /\ fetchErr # Nil
  /\ Len(requests) = 2
  /\ Len(delivered) = 1
  /\ lastOutcome[1].kind = "body"
  /\ ~lastOutcome[1].wellFormed

\* C7: every request of a Harvest call after the first is exactly
\* verb=ListRecords plus the token of the page before it.
C7_TokenChaining ==
  ViaHarvest =>
    \A n \in 2..Len(requests) :
      /\ Len(served) >= n - 1
      /\ requests[n] = << <<"verb", "ListRecords">>, <<"resumptionToken", served[n - 1]>> >>

\* Three requests, the second and third carrying different tokens.
C7_Witness ==
  /\ ViaHarvest
  /\ Len(requests) = 3
  /\ Len(served) >= 2
  /\ served[1] = "T1"
  /\ served[2] = "T2"

TokenlessServed == served # <<>> /\ served[Len(served)] = ""

\* C8: once the fetch layer has returned a page without a token, or a fetch or
\* the callback has failed, the call reaches Done or Failed; the callback
\* returning nil on a token-less page ends the call in Done at once, with no
\* further request, and Done is only ever reached that way.
C8_Termination ==
  /\ (TokenlessServed \/ fetchErr # Nil \/ cbErr # Nil) ~> Terminal
  /\ [][(pc = "Delivering" /\ GetResumptionToken(resp[1]) = "" /\ cbErr' = Nil)
          => (pc' = "Done" /\ err' = Nil /\ requests' = requests /\ inflight' = 0)]_vars
  /\ [](pc = "Done" =>
          /\ TokenlessServed
          /\ Len(delivered) = Len(served)
          /\ Len(requests) = Len(served)
          /\ inflight = 0)

C8_Witness ==
  /\ ViaHarvest
  /\ pc = "Done"
  /\ Len(requests) = 2
  /\ Len(delivered) = 2
  /\ delivered[2] = ""

\* C9: at most one request is in flight, exactly while the call is fetching;
\* while the callback runs nothing is in flight, and the requests sent never
\* exceed the pages the callback has returned from by more than one.
C9_StrictlySerial ==
  ViaHarvest =>
    /\ inflight \in {0, 1}
    /\ inflight = 1 <=> pc = "Fetching"
    /\ Len(requests) <= Len(delivered) + 1
    /\ pc = "Delivering" => (inflight = 0 /\ Len(requests) = Len(delivered) + 1)
    /\ pc = "Fetching" => Len(requests) = Len(delivered) + 1
    /\ pc = "Continuing" => Len(requests) = Len(delivered)

\* The callback runs on page 2, which has a token; page 3 is not yet requested.
C9_Witness ==
  /\ ViaHarvest
  /\ pc = "Delivering"
  /\ Len(requests) = 2
  /\ GetResumptionToken(resp[1]) \in Tokens
  /\ inflight = 0

\* The transitions the state machine of the specification lists.
ListedTransition ==
  \/ pc = "Init" /\ pc' = "Fetching"
  \/ pc = "Fetching" /\ pc' = "Delivering"
  \/ pc = "Delivering" /\ pc' = "Continuing"
  \/ pc = "Continuing" /\ pc' = "Fetching"
  \/ pc = "Delivering" /\ pc' = "Done"
  \/ pc = "Delivering" /\ pc' = "Failed" /\ cbErr' # Nil

\* C10 as claimed: a step of a Harvest call is a listed transition or goes to
\* Failed on a fetch, parse or protocol error; Done and Failed have no step.
C10_Original ==
  [][/\ ~Terminal
     /\ entry' = "Harvest" =>
          \/ ListedTransition
          \/ pc' = "Failed" /\ fetchErr' # Nil]_vars

\* C10, amended: besides the listed transitions there is Init -> Failed on an
\* unsupported format tag (no request sent); a fetch, parse or protocol error
\* takes Fetching to Failed; Done and Failed have no step.
C10_StateMachine ==
  [][/\ ~Terminal
     /\ entry' = "Harvest" =>
          \/ ListedTransition
          \/ pc = "Fetching" /\ pc' = "Failed" /\ fetchErr' # Nil /\ cbErr' = Nil
          \/ /\ pc = "Init" /\ pc' = "Failed"
             /\ metadataPrefix' \notin Registered
             /\ err' = UnsupportedFormat(metadataPrefix')
             /\ fetchErr' = Nil /\ cbErr' = Nil
             /\ requests' = <<>> /\ inflight' = 0]_vars

\* Every state of the machine is visited: a call that went through Continuing
\* has ended in Done.
C10_Witness ==
  /\ ViaHarvest
  /\ pc = "Done"
  /\ Len(requests) = 3

ViaLegacy == entry \in {"HarvestAll", "HarvestAllDC"}

\* C11: every request sent carries exactly one of metadataPrefix and
\* resumptionToken; HarvestAll or HarvestAllDC called with an empty prefix has
\* failed with the construction error, no request sent, no page delivered.
C11_ExactlyOneSelector ==
  /\ \A i \in 1..Len(requests) :
       ~(HasKey(requests[i], "metadataPrefix") <=> HasKey(requests[i], "resumptionToken"))
  /\ (ViaLegacy /\ metadataPrefix = "") =>
       /\ pc = "Failed"
       /\ err # Nil
       /\ err[1].msg = <<"either metadataPrefix or resumptionToken must be provided">>
       /\ requests = <<>>
       /\ inflight = 0
       /\ lastOutcome = Nil
       /\ served = <<>>
       /\ delivered = <<>>

C11_Witness ==
  /\ entry = "HarvestAll"
  /\ metadataPrefix = ""
  /\ pc = "Failed"
  /\ requests = <<>>

\* ------------------------------------------------------------------ response abstraction, called on its own

\* Envelopes a caller may unmarshal: any combination of an error element, a
\* ListRecords payload and a GetRecord payload.
RespBodies ==
  {[wellFormed |-> TRUE, xmlErr |-> <<>>, error |-> e, listRecords |-> lr, getRecord |-> g] :
     e \in {Nil} \cup {Ptr(x) : x \in OAIErrors},
     lr \in ListRecordsElems(TRUE),
     g \in {Nil} \cup {Ptr(k) : k \in PayloadKinds}}

RespInit ==
  /\ EngineIdle
  /\ pin \in RespBodies
  /\ pop = ""
  /\ pargs = <<>>
  /\ pout = <<>>

\* xml.Unmarshal(body, &oaiResp) with oaiResp an OAIPMHResponse.
RespUnmarshalMARCXML ==
  /\ pop = ""
  /\ pop' = "Unmarshal"
  /\ pargs' = <<FormatMARCXML>>
  /\ pout' = <<UnmarshalMARCXML(pin)>>
  /\ UNCHANGED <<pin, evars>>

\* xml.Unmarshal(body, &oaiResp) with oaiResp an OAIPMHResponseDC.
RespUnmarshalDC ==
  /\ pop = ""
  /\ pop' = "Unmarshal"
  /\ pargs' = <<FormatOAIDC>>
  /\ pout' = <<UnmarshalDC(pin)>>
  /\ UNCHANGED <<pin, evars>>

\* oaiResp.GetRecords().
RespGetRecords ==
  /\ pop = "Unmarshal"
  /\ pop' = "GetRecords"
  /\ pout' = Append(pout, GetRecords(pout[1]))
  /\ UNCHANGED <<pin, pargs, evars>>

\* oaiResp.ExtractAllBookMetadata() / oaiResp.ExtractAllDCMetadata(), after
\* GetRecords on the same response.
RespExtractAll ==
  /\ pop = "GetRecords"
  /\ pop' = "ExtractAll"
  /\ pout' = Append(pout, ExtractAllMetadata(pout[1]))
  /\ UNCHANGED <<pin, pargs, evars>>

\* oaiResp.GetResumptionToken().
RespGetResumptionToken ==
  /\ pop = "Unmarshal"
  /\ pop' = "GetResumptionToken"
  /\ pout' = Append(pout, GetResumptionToken(pout[1]))
  /\ UNCHANGED <<pin, pargs, evars>>

\* The loop's decision on that token, the loop holding the token cur.
RespAfterCallback(cur) ==
  /\ pop = "GetResumptionToken"
  /\ pop' = "AfterCallback"
  /\ pargs' = Append(pargs, cur)
  /\ pout' = Append(pout, AfterCallback(pout[2], cur, Nil))
  /\ UNCHANGED <<pin, evars>>

RespNext ==
  \/ RespUnmarshalMARCXML
  \/ RespUnmarshalDC
  \/ RespGetRecords
  \/ RespExtractAll
  \/ RespGetResumptionToken
  \/ \E cur \in {""} \cup Tokens : RespAfterCallback(cur)

RespSpec == RespInit /\ [][RespNext]_vars

\* C12: GetRecords on a response whose HasError() is true exposes no record.
C12_ErrorHidesRecords ==
  (pop = "GetRecords" /\ HasError(pout[1])) => pout[2] = <<>>

\* ------------------------------------------------------------------ Dublin Core extraction

MaxItems == 4
MaxOther == 1

DCValues == {"", "a", "b"}

DCElements ==
  {"Title", "Creator", "Subject", "Description", "Publisher", "Contributor", "Date", "Type",
   "Format", "Identifier", "Source", "Language", "Relation", "Coverage", "Rights"}

\* A DublinCore value: the title list, the creator list, and one list repeated
\* in the thirteen remaining elements.
DublinCoreOf(t, c, r) ==
  [f \in DCElements |-> IF f = "Title" THEN t ELSE IF f = "Creator" THEN c ELSE r]

DublinCores ==
  {DublinCoreOf(t, c, r) :
     t \in SeqsUpTo(DCValues, MaxItems),
     c \in SeqsUpTo(DCValues, MaxOther),
     r \in {<<>>, <<"b", "", "b">>, <<"a">>}}

\* The range loop of deduplicate, keeping empty strings.
RECURSIVE deduplicateLoop_KeepsEmpty(_, _, _)
deduplicateLoop_KeepsEmpty(items, seen, unique) ==
  IF items = <<>> THEN unique
  ELSE LET item == Head(items)
       IN IF item \notin seen
            THEN deduplicateLoop_KeepsEmpty(Tail(items), seen \cup {item}, Append(unique, item))
            ELSE deduplicateLoop_KeepsEmpty(Tail(items), seen, unique)

deduplicate_KeepsEmpty(items) ==
  IF Len(items) = 0 THEN items ELSE deduplicateLoop_KeepsEmpty(items, {}, <<>>)

\* The range loop of deduplicate, forgetting a value when it drops a repeat.
RECURSIVE deduplicateLoop_Forgets(_, _, _)
deduplicateLoop_Forgets(items, seen, unique) ==
  IF items = <<>> THEN unique
  ELSE LET item == Head(items)
       IN IF item = "" THEN deduplicateLoop_Forgets(Tail(items), seen, unique)
          ELSE IF item \notin seen
            THEN deduplicateLoop_Forgets(Tail(items), seen \cup {item}, Append(unique, item))
            ELSE deduplicateLoop_Forgets(Tail(items), seen \ {item}, unique)

deduplicate_Forgets(items) ==
  IF Len(items) = 0 THEN items ELSE deduplicateLoop_Forgets(items, {}, <<>>)

\* The range loop of deduplicate: seen is the set of keys mapped to true.
RECURSIVE deduplicateLoop(_, _, _)
deduplicateLoop(items, seen, unique) ==
  IF items = <<>> THEN unique
  ELSE LET item == Head(items)
       IN IF item = "" THEN deduplicateLoop(Tail(items), seen, unique)
          ELSE IF item \notin seen
            THEN deduplicateLoop(Tail(items), seen \cup {item}, Append(unique, item))
            ELSE deduplicateLoop(Tail(items), seen, unique)

deduplicate(items) ==
  IF Len(items) = 0 THEN items ELSE deduplicateLoop(items, {}, <<>>)

ExtractDCMetadata(dc) ==
  IF dc = Nil THEN Nil
  ELSE Ptr([Title       |-> deduplicate(dc[1].Title),
            Creator     |-> deduplicate(dc[1].Creator),
            Subject     |-> deduplicate(dc[1].Subject),
            Description |-> deduplicate(dc[1].Description),
            Publisher   |-> deduplicate(dc[1].Publisher),
            Contributor |-> deduplicate(dc[1].Contributor),
            Date        |-> deduplicate(dc[1].Date),
            Type        |-> deduplicate(dc[1].Type),
            Format      |-> deduplicate(dc[1].Format),
            Identifier  |-> deduplicate(dc[1].Identifier),
            Source      |-> deduplicate(dc[1].Source),
            Language    |-> deduplicate(dc[1].Language),
            Relation    |-> deduplicate(dc[1].Relation),
            Coverage    |-> deduplicate(dc[1].Coverage),
            Rights      |-> deduplicate(dc[1].Rights)])

DCInit ==
  /\ EngineIdle
  /\ pin \in {Ptr(dc) : dc \in DublinCores}
  /\ pop = ""
  /\ pargs = <<>>
  /\ pout = <<>>

\* dc.ExtractDCMetadata().
DCExtract ==
  /\ pop = ""
  /\ pop' = "ExtractDCMetadata"
  /\ pout' = <<ExtractDCMetadata(pin)>>
  /\ UNCHANGED <<pin, pargs, evars>>

\* deduplicate(dc.Title), the first call ExtractDCMetadata makes.
DCDeduplicate ==
  /\ pop = ""
  /\ pop' = "deduplicate"
  /\ pargs' = <<pin[1].Title>>
  /\ pout' = <<deduplicate(pin[1].Title)>>
  /\ UNCHANGED <<pin, evars>>

\* deduplicate applied to its own result.
DCDeduplicateAgain ==
  /\ pop = "deduplicate"
  /\ pop' = "deduplicate(deduplicate)"
  /\ pout' = Append(pout, deduplicate(pout[1]))
  /\ UNCHANGED <<pin, pargs, evars>>

DCNext == DCExtract \/ DCDeduplicate \/ DCDeduplicateAgain

DCSpec == DCInit /\ [][DCNext]_vars

\* The position of the first occurrence of v in x.
FirstIndex(x, v) == CHOOSE i \in 1..Len(x) : x[i] = v /\ \A j \in 1..(i - 1) : x[j] # v

\* r is x without its empty strings and without every repeat of a value.
IsDedupOf(x, r) ==
  /\ \A i \in 1..Len(r) : r[i] # ""
  /\ \A i, j \in 1..Len(r) : r[i] = r[j] => i = j
  /\ {r[i] : i \in 1..Len(r)} = {x[i] : i \in 1..Len(x)} \ {""}
  /\ \A i, j \in 1..Len(r) : i < j => FirstIndex(x, r[i]) < FirstIndex(x, r[j])

\* C13: deduplicate(x) has no empty string and no duplicate, holds every
\* non-empty value of x, in first-seen order (<<a, "", b, a>> gives <<a, b>>);
\* ExtractDCMetadata yields that result for each of the fifteen elements from
\* that element alone.
C13_DedupFirstSeen ==
  /\ pop = "deduplicate" =>
       /\ IsDedupOf(pargs[1], pout[1])
       /\ pargs[1] = <<"a", "", "b", "a">> => pout[1] = <<"a", "b">>
  /\ pop = "ExtractDCMetadata" =>
       /\ pout[1] # Nil
       /\ DOMAIN pout[1][1] = DCElements
       /\ \A f \in DCElements : IsDedupOf(pin[1][f], pout[1][1][f])

C13_Witness ==
  /\ pop = "ExtractDCMetadata"
  /\ pin[1].Title = <<"a", "", "b", "a">>
  /\ pin[1].Creator = <<"a">>
  /\ pin[1].Subject = <<"b", "", "b">>
  /\ pout[1][1].Title = <<"a", "b">>
  /\ pout[1][1].Creator = <<"a">>
  /\ pout[1][1].Subject = <<"b">>

\* C14: deduplicate applied to a result of deduplicate returns it unchanged,
\* also for the empty sequence and for sequences of empty strings only.
C14_DedupIdempotent ==
  pop = "deduplicate(deduplicate)" => pout[2] = pout[1]

C14_Witness ==
  /\ pop = "deduplicate(deduplicate)"
  /\ pargs[1] = <<"a", "a", "", "a">>
  /\ pout = <<(<<"a">>), (<<"a">>)>>

\* ------------------------------------------------------------------ MARC extraction

\* Bound on the size of a record: its data fields plus their subfields.
MaxSize == 5

SubfieldPool ==
  {[Code |-> "a", Value |-> "x"], [Code |-> "a", Value |-> "z"],
   [Code |-> "b", Value |-> "y"], [Code |-> "a", Value |-> ""]}

\* The tags one record draws its data fields from.
TagFamilies == {{"700", "245"}, {"090", "300"}, {"990", "999"}}

ControlFieldSeqs ==
  {<<>>,
   <<[Tag |-> "005", Value |-> "20240101"]>>,
   <<[Tag |-> "005", Value |-> "20240101"], [Tag |-> "001", Value |-> "id1"]>>}

\* The data field lists of size n over tags: a list of size n - 1 extended by
\* an empty field or by one more subfield in its last field.
RECURSIVE DataFieldsOfSize(_, _)
DataFieldsOfSize(tags, n) ==
  IF n = 0 THEN {<<>>}
  ELSE LET smaller == DataFieldsOfSize(tags, n - 1)
       IN {Append(d, [Tag |-> t, Subfields |-> <<>>]) : d \in smaller, t \in tags}
          \cup {[d EXCEPT ![Len(d)].Subfields = Append(@, sf)] :
                  d \in smaller \ {<<>>}, sf \in SubfieldPool}

DataFieldSeqs(n) == UNION {DataFieldsOfSize(tags, k) : tags \in TagFamilies, k \in 0..n}

MARCRecords ==
  {[ControlFields |-> <<>>, DataFields |-> d] : d \in DataFieldSeqs(MaxSize)}
  \cup {[ControlFields |-> c, DataFields |-> d] : c \in ControlFieldSeqs, d \in DataFieldSeqs(1)}

\* The inner loop of GetFieldValue: the first subfield with the code, if any.
RECURSIVE FirstSubfield(_, _)
FirstSubfield(subfields, subfieldCode) ==
  IF subfields = <<>> THEN Nil
  ELSE IF Head(subfields).Code = subfieldCode THEN Ptr(Head(subfields).Value)
  ELSE FirstSubfield(Tail(subfields), subfieldCode)

\* The inner loop of GetFieldValues: the values of the subfields with the code.
RECURSIVE SubfieldValues(_, _)
SubfieldValues(subfields, subfieldCode) ==
  IF subfields = <<>> THEN <<>>
  ELSE (IF Head(subfields).Code = subfieldCode THEN <<Head(subfields).Value>> ELSE <<>>)
       \o SubfieldValues(Tail(subfields), subfieldCode)

\* GetFieldValue that searches only the first field carrying the tag.
RECURSIVE GetFieldValueLoop_FirstFieldOnly(_, _, _)
GetFieldValueLoop_FirstFieldOnly(fields, tag, subfieldCode) ==
  IF fields = <<>> THEN ""
  ELSE IF Head(fields).Tag = tag
    THEN LET hit == FirstSubfield(Head(fields).Subfields, subfieldCode)
         IN IF hit # Nil THEN hit[1] ELSE ""
    ELSE GetFieldValueLoop_FirstFieldOnly(Tail(fields), tag, subfieldCode)

RECURSIVE GetFieldValueLoop(_, _, _)
GetFieldValueLoop(fields, tag, subfieldCode) ==
  IF fields = <<>> THEN ""
  ELSE LET hit == IF Head(fields).Tag = tag
                    THEN FirstSubfield(Head(fields).Subfields, subfieldCode)
                    ELSE Nil
       IN IF hit # Nil THEN hit[1] ELSE GetFieldValueLoop(Tail(fields), tag, subfieldCode)

GetFieldValue(m, tag, subfieldCode) == GetFieldValueLoop(m.DataFields, tag, subfieldCode)

\* GetFieldValues that takes one value from each field carrying the tag.
RECURSIVE GetFieldValuesLoop_OnePerField(_, _, _)
GetFieldValuesLoop_OnePerField(fields, tag, subfieldCode) ==
  IF fields = <<>> THEN <<>>
  ELSE (IF Head(fields).Tag = tag
          THEN LET hit == FirstSubfield(Head(fields).Subfields, subfieldCode)
               IN IF hit # Nil THEN <<hit[1]>> ELSE <<>>
          ELSE <<>>)
       \o GetFieldValuesLoop_OnePerField(Tail(fields), tag, subfieldCode)

RECURSIVE GetFieldValuesLoop(_, _, _)
GetFieldValuesLoop(fields, tag, subfieldCode) ==
  IF fields = <<>> THEN <<>>
  ELSE (IF Head(fields).Tag = tag
          THEN SubfieldValues(Head(fields).Subfields, subfieldCode)
          ELSE <<>>)
       \o GetFieldValuesLoop(Tail(fields), tag, subfieldCode)

\* A nil slice and an empty slice are both the empty sequence.
GetFieldValues(m, tag, subfieldCode) == GetFieldValuesLoop(m.DataFields, tag, subfieldCode)

\* GetControlFieldValue that returns the first control field whatever its tag.
GetControlFieldValue_AnyTag(m, tag) ==
  IF m.ControlFields = <<>> THEN "" ELSE m.ControlFields[1].Value

RECURSIVE GetControlFieldValueLoop(_, _)
GetControlFieldValueLoop(fields, tag) ==
  IF fields = <<>> THEN ""
  ELSE IF Head(fields).Tag = tag THEN Head(fields).Value
  ELSE GetControlFieldValueLoop(Tail(fields), tag)

GetControlFieldValue(m, tag) == GetControlFieldValueLoop(m.ControlFields, tag)

RECURSIVE GetAllSubfieldsLoop(_, _)
GetAllSubfieldsLoop(fields, tag) ==
  IF fields = <<>> THEN <<>>
  ELSE (IF Head(fields).Tag = tag THEN <<Head(fields)>> ELSE <<>>)
       \o GetAllSubfieldsLoop(Tail(fields), tag)

GetAllSubfields(m, tag) == GetAllSubfieldsLoop(m.DataFields, tag)

\* The values of the subfields whose value is not the empty string.
RECURSIVE NonEmptyValues(_)
NonEmptyValues(subfields) ==
  IF subfields = <<>> THEN <<>>
  ELSE (IF Head(subfields).Value # "" THEN <<Head(subfields).Value>> ELSE <<>>)
       \o NonEmptyValues(Tail(subfields))

\* The loop that appends " " and parts[i] for i from the second part to n.
RECURSIVE AppendParts(_, _, _, _)
AppendParts(acc, parts, i, n) ==
  IF i > n THEN acc ELSE AppendParts(acc \o " " \o parts[i], parts, i + 1, n)

\* The call number with every non-empty part appended.
CallNumberOf_NoCap(m) ==
  LET callNum090 == GetAllSubfields(m, "090")
  IN IF Len(callNum090) > 0
       THEN LET callParts == NonEmptyValues(callNum090[1].Subfields)
            IN IF Len(callParts) > 0
                 THEN AppendParts(callParts[1], callParts, 2, Len(callParts))
                 ELSE ""
       ELSE ""

CallNumberOf(m) ==
  LET callNum090 == GetAllSubfields(m, "090")
  IN IF Len(callNum090) > 0
       THEN LET callParts == NonEmptyValues(callNum090[1].Subfields)
            IN IF Len(callParts) > 0
                 THEN IF Len(callParts) > 1
                        THEN callParts[1] \o " " \o callParts[2]
                        ELSE callParts[1]
                 ELSE ""
       ELSE ""

\* The physical description cut after its second part.
PhysicalDescOf_CapTwo(m) ==
  LET field300 == GetAllSubfields(m, "300")
  IN IF Len(field300) > 0
       THEN LET physDesc == NonEmptyValues(field300[1].Subfields)
            IN IF Len(physDesc) > 0
                 THEN IF Len(physDesc) > 1
                        THEN physDesc[1] \o " " \o physDesc[2]
                        ELSE physDesc[1]
                 ELSE ""
       ELSE ""

PhysicalDescOf(m) ==
  LET field300 == GetAllSubfields(m, "300")
  IN IF Len(field300) > 0
       THEN LET physDesc == NonEmptyValues(field300[1].Subfields)
            IN IF Len(physDesc) > 0
                 THEN AppendParts(physDesc[1], physDesc, 2, Len(physDesc))
                 ELSE ""
       ELSE ""

\* The holdings taken in one pass over the record, 990 and 999 interleaved.
RECURSIVE HoldingsLoop_DocumentOrder(_)
HoldingsLoop_DocumentOrder(fields) ==
  IF fields = <<>> THEN <<>>
  ELSE (IF Head(fields).Tag \in {"990", "999"}
          THEN SubfieldValues(Head(fields).Subfields, "a")
          ELSE <<>>)
       \o HoldingsLoop_DocumentOrder(Tail(fields))

HoldingsOf_DocumentOrder(m) == HoldingsLoop_DocumentOrder(m.DataFields)

HoldingsOf(m) ==
  LET holdings990 == GetFieldValues(m, "990", "a")
      holdings999 == GetFieldValues(m, "999", "a")
  IN (<<>> \o holdings990) \o holdings999

ExtractBookMetadata(m) ==
  IF m = Nil THEN Nil
  ELSE Ptr([RecordID        |-> GetControlFieldValue(m[1], "001"),
            LastModified    |-> GetControlFieldValue(m[1], "005"),
            ISBN            |-> GetFieldValue(m[1], "020", "a"),
            Classification  |-> GetFieldValue(m[1], "082", "a"),
            CallNumber      |-> CallNumberOf(m[1]),
            MainAuthor      |-> GetFieldValue(m[1], "100", "a"),
            CorporateAuthor |-> GetFieldValue(m[1], "110", "a"),
            MeetingName     |-> GetFieldValue(m[1], "111", "a"),
            Title           |-> GetFieldValue(m[1], "245", "a"),
            Subtitle        |-> GetFieldValue(m[1], "245", "b"),
            Responsibility  |-> GetFieldValue(m[1], "245", "c"),
            Edition         |-> GetFieldValue(m[1], "250", "a"),
            PublishPlace    |-> GetFieldValue(m[1], "260", "a"),
            Publisher       |-> GetFieldValue(m[1], "260", "b"),
            PublishYear     |-> GetFieldValue(m[1], "260", "c"),
            PhysicalDesc    |-> PhysicalDescOf(m[1]),
            Notes           |-> GetFieldValues(m[1], "500", "a"),
            Bibliography    |-> GetFieldValue(m[1], "504", "a"),
            Subjects        |-> GetFieldValues(m[1], "650", "a"),
            Authors         |-> GetFieldValues(m[1], "700", "a"),
            Holdings        |-> HoldingsOf(m[1]),
            URL             |-> GetFieldValue(m[1], "856", "u")])

MarcInit ==
  /\ EngineIdle
  /\ pin \in {Ptr(m) : m \in MARCRecords}
  /\ pop = ""
  /\ pargs = <<>>
  /\ pout = <<>>

\* m.ExtractBookMetadata().
MarcExtract ==
  /\ pop = ""
  /\ pop' = "ExtractBookMetadata"
  /\ pout' = <<ExtractBookMetadata(pin)>>
  /\ UNCHANGED <<pin, pargs, evars>>

\* m.GetFieldValues(tag, subfieldCode).
MarcGetFieldValues(tag, subfieldCode) ==
  /\ pop = ""
  /\ pop' = "GetFieldValues"
  /\ pargs' = <<tag, subfieldCode>>
  /\ pout' = <<GetFieldValues(pin[1], tag, subfieldCode)>>
  /\ UNCHANGED <<pin, evars>>

\* m.GetFieldValue(tag, subfieldCode).
MarcGetFieldValue(tag, subfieldCode) ==
  /\ pop = ""
  /\ pop' = "GetFieldValue"
  /\ pargs' = <<tag, subfieldCode>>
  /\ pout' = <<GetFieldValue(pin[1], tag, subfieldCode)>>
  /\ UNCHANGED <<pin, evars>>

MarcNext ==
  \/ MarcExtract
  \/ \E tag \in {"700"}, subfieldCode \in {"a", "b"} : MarcGetFieldValues(tag, subfieldCode)
  \/ \E tag \in {"700"}, subfieldCode \in {"a", "b"} : MarcGetFieldValue(tag, subfieldCode)

MarcSpec == MarcInit /\ [][MarcNext]_vars

\* ------------------------------------------------------------------ MARC extraction: claims

\* The positions <<field, subfield>> of the subfields with the code inside the
\* data fields with the tag.
Matches(m, tag, subfieldCode) ==
  {p \in UNION {{<<i, j>> : j \in 1..Len(m.DataFields[i].Subfields)} : i \in 1..Len(m.DataFields)} :
     /\ m.DataFields[p[1]].Tag = tag
     /\ m.DataFields[p[1]].Subfields[p[2]].Code = subfieldCode}

\* Document order: field order, then subfield order within a field.
Before(p, q) == p[1] < q[1] \/ (p[1] = q[1] /\ p[2] < q[2])

ValueAt(m, p) == m.DataFields[p[1]].Subfields[p[2]].Value

\* r is the list of the values at the positions S, in document order.
ListsInOrder(m, S, r) ==
  /\ Len(r) = Cardinality(S)
  /\ \A p \in S : r[Cardinality({q \in S : Before(q, p)}) + 1] = ValueAt(m, p)

HasTag(m, tag) == \E i \in 1..Len(m.DataFields) : m.DataFields[i].Tag = tag

\* The first data field occurrence with the tag.
FirstField(m, tag) ==
  m.DataFields[CHOOSE i \in 1..Len(m.DataFields) :
                 /\ m.DataFields[i].Tag = tag
                 /\ \A j \in 1..(i - 1) : m.DataFields[j].Tag # tag]

\* The non-empty subfield values of a field, in subfield order.
NonEmptyParts(f) ==
  LET S == {j \in 1..Len(f.Subfields) : f.Subfields[j].Value # ""}
  IN [k \in 1..Cardinality(S) |->
        f.Subfields[CHOOSE j \in S : Cardinality({i \in S : i <= j}) = k].Value]

RECURSIVE JoinSpace(_)
JoinSpace(parts) ==
  IF parts = <<>> THEN ""
  ELSE IF Len(parts) = 1 THEN parts[1]
  ELSE parts[1] \o " " \o JoinSpace(Tail(parts))

Extracted == pop = "ExtractBookMetadata"

\* C15: GetFieldValues(tag, code) is the list of the values of the subfields
\* with that code in the fields with that tag, in document order, repeats
\* kept; its length is the number of matching subfields.
C15_AllValuesInOrder ==
  pop = "GetFieldValues" =>
    ListsInOrder(pin[1], Matches(pin[1], pargs[1], pargs[2]), pout[1])

C15_Witness ==
  /\ pop = "GetFieldValues"
  /\ pargs = <<"700", "a">>
  /\ pin[1].DataFields =
       <<[Tag |-> "700", Subfields |-> <<[Code |-> "a", Value |-> "x"]>>],
         [Tag |-> "700", Subfields |-> <<[Code |-> "a", Value |-> "x"]>>]>>
  /\ pout[1] = <<"x", "x">>

\* C16: GetFieldValue(tag, code) is the first element of
\* GetFieldValues(tag, code) when that list is non-empty, the value at the first
\* matching position in document order, and the empty string when no subfield
\* matches.
C16_FirstValue ==
  pop = "GetFieldValue" =>
    LET S == Matches(pin[1], pargs[1], pargs[2])
        values == GetFieldValues(pin[1], pargs[1], pargs[2])
    IN /\ values # <<>> => pout[1] = values[1]
       /\ values = <<>> => pout[1] = ""
       /\ S = {} => pout[1] = ""
       /\ \A p \in S : (\A q \in S : ~Before(q, p)) => pout[1] = ValueAt(pin[1], p)

C16_Witness ==
  /\ pop = "GetFieldValue"
  /\ pargs = <<"700", "a">>
  /\ pin[1].DataFields =
       <<[Tag |-> "700", Subfields |-> <<[Code |-> "b", Value |-> "y"]>>],
         [Tag |-> "700", Subfields |-> <<[Code |-> "a", Value |-> "z"]>>]>>
  /\ pout[1] = "z"

\* C17 as stated: CallNumber is the first subfield value of the first 090
\* field, followed by one space and the second subfield value when the field
\* has a second subfield.
C17_Original ==
  Extracted =>
    LET m == pin[1]
        callNumber == pout[1][1].CallNumber
    IN IF ~HasTag(m, "090") THEN callNumber = ""
       ELSE LET sf == FirstField(m, "090").Subfields
            IN IF Len(sf) = 0 THEN callNumber = ""
               ELSE IF Len(sf) = 1 THEN callNumber = sf[1].Value
               ELSE callNumber = sf[1].Value \o " " \o sf[2].Value

\* C17: CallNumber is built from the first 090 field only: the first non-empty
\* subfield value, followed by one space and the second non-empty subfield
\* value when there is one; further values and later 090 fields are ignored,
\* and CallNumber is empty when the field has no non-empty value.
C17_CallNumberFirstTwoNonEmpty ==
  Extracted =>
    LET m == pin[1]
        callNumber == pout[1][1].CallNumber
    IN IF ~HasTag(m, "090") THEN callNumber = ""
       ELSE LET parts == NonEmptyParts(FirstField(m, "090"))
            IN IF Len(parts) = 0 THEN callNumber = ""
               ELSE IF Len(parts) = 1 THEN callNumber = parts[1]
               ELSE callNumber = parts[1] \o " " \o parts[2]

C17_Witness ==
  /\ Extracted
  /\ pin[1].DataFields =
       <<[Tag |-> "090", Subfields |-> <<[Code |-> "a", Value |-> "x"],
                                         [Code |-> "b", Value |-> "y"],
                                         [Code |-> "a", Value |-> "z"]>>],
         [Tag |-> "090", Subfields |-> <<>>]>>
  /\ pout[1][1].CallNumber = "x y"

\* C18: PhysicalDesc is built from the first 300 field only: all its non-empty
\* subfield values in subfield order, joined by single spaces, however many
\* there are; it is empty when there is no 300 field.
C18_PhysicalDescJoinsAll ==
  Extracted =>
    LET m == pin[1]
        physicalDesc == pout[1][1].PhysicalDesc
    IN IF ~HasTag(m, "300") THEN physicalDesc = ""
       ELSE physicalDesc = JoinSpace(NonEmptyParts(FirstField(m, "300")))

C18_Witness ==
  /\ Extracted
  /\ pin[1].DataFields =
       <<[Tag |-> "300", Subfields |-> <<[Code |-> "a", Value |-> "x"],
                                         [Code |-> "a", Value |-> ""],
                                         [Code |-> "b", Value |-> "y"],
                                         [Code |-> "a", Value |-> "z"]>>]>>
  /\ pout[1][1].PhysicalDesc = "x y z"

\* C19: Holdings is the 990$a values in document order followed by the 999$a
\* values in document order, wherever the 999 fields stand in the record; its
\* length is the sum of the two counts.
C19_Holdings990Then999 ==
  Extracted =>
    LET m == pin[1]
        holdings == pout[1][1].Holdings
        S990 == Matches(m, "990", "a")
        S999 == Matches(m, "999", "a")
        n == Cardinality(S990)
    IN /\ Len(holdings) = n + Cardinality(S999)
       /\ ListsInOrder(m, S990, SubSeq(holdings, 1, n))
       /\ ListsInOrder(m, S999, SubSeq(holdings, n + 1, Len(holdings)))

C19_Witness ==
  /\ Extracted
  /\ pin[1].DataFields =
       <<[Tag |-> "999", Subfields |-> <<[Code |-> "a", Value |-> "x"]>>],
         [Tag |-> "990", Subfields |-> <<[Code |-> "a", Value |-> "z"]>>]>>
  /\ pout[1][1].Holdings = <<"z", "x">>

\* The single-valued targets read with GetFieldValue, and their tag and code.
SingleSource ==
  [ISBN            |-> <<"020", "a">>, Classification  |-> <<"082", "a">>,
   MainAuthor      |-> <<"100", "a">>, CorporateAuthor |-> <<"110", "a">>,
   MeetingName     |-> <<"111", "a">>, Title           |-> <<"245", "a">>,
   Subtitle        |-> <<"245", "b">>, Responsibility  |-> <<"245", "c">>,
   Edition         |-> <<"250", "a">>, PublishPlace    |-> <<"260", "a">>,
   Publisher       |-> <<"260", "b">>, PublishYear     |-> <<"260", "c">>,
   Bibliography    |-> <<"504", "a">>, URL             |-> <<"856", "u">>]

\* The multi-valued targets read with GetFieldValues alone.
MultiSource ==
  [Notes |-> <<"500", "a">>, Subjects |-> <<"650", "a">>, Authors |-> <<"700", "a">>]

\* The single-valued targets read from a control field.
ControlSource == [RecordID |-> "001", LastModified |-> "005"]

BookMetadataFields ==
  DOMAIN SingleSource \cup DOMAIN MultiSource \cup DOMAIN ControlSource
    \cup {"CallNumber", "PhysicalDesc", "Holdings"}

\* C20: ExtractBookMetadata returns a projection for every record; a
\* single-valued target whose source is absent is the empty string, and Notes,
\* Subjects, Authors and Holdings are the empty sequence when theirs is.
C20_ExtractionTotal ==
  Extracted =>
    /\ pout[1] # Nil
    /\ DOMAIN pout[1][1] = BookMetadataFields
    /\ LET m == pin[1]
           b == pout[1][1]
       IN /\ \A f \in DOMAIN SingleSource :
               Matches(m, SingleSource[f][1], SingleSource[f][2]) = {} => b[f] = ""
          /\ \A f \in DOMAIN ControlSource :
               (\A i \in 1..Len(m.ControlFields) : m.ControlFields[i].Tag # ControlSource[f])
                 => b[f] = ""
          /\ ~HasTag(m, "090") => b.CallNumber = ""
          /\ ~HasTag(m, "300") => b.PhysicalDesc = ""
          /\ \A f \in DOMAIN MultiSource :
               Matches(m, MultiSource[f][1], MultiSource[f][2]) = {} => b[f] = <<>>
          /\ Matches(m, "990", "a") \cup Matches(m, "999", "a") = {} => b.Holdings = <<>>

C20_Witness ==
  /\ Extracted
  /\ pin[1] = [ControlFields |-> <<>>, DataFields |-> <<>>]
  /\ pout[1] # Nil
  /\ pout[1][1].Title = ""
  /\ pout[1][1].RecordID = ""
  /\ pout[1][1].Holdings = <<>>

\* ------------------------------------------------------------------ response abstraction: claims

\* What the metadata element must hold for the response type to parse it.
WireKind == IF pargs[1] = FormatMARCXML THEN "marc" ELSE "dc"

\* The record elements of the page, and the token element, as sent.
PageRecords == IF pin.listRecords = Nil THEN <<>> ELSE pin.listRecords[1].records
TokenElem == IF pin.listRecords = Nil THEN Nil ELSE pin.listRecords[1].resumptionToken

\* C21: GetRecords returns, for either format, one handle for each record of
\* the page whose payload was parsed, in the order of the page's record list,
\* and no handle twice.
C21_RecordsInDocumentOrder ==
  pop = "GetRecords" =>
    LET h == pout[2]
    IN /\ \A i \in 1..Len(h) :
            h[i].At = 0 \/ (h[i].At \in 1..Len(PageRecords) /\ PageRecords[h[i].At] = WireKind)
       /\ \A a \in 1..Len(PageRecords) :
            PageRecords[a] = WireKind => \E i \in 1..Len(h) : h[i].At = a
       /\ \A i, j \in 1..Len(h) : (i < j /\ h[i].At # 0 /\ h[j].At # 0) => h[i].At < h[j].At
       /\ \A i, j \in 1..Len(h) : h[i] = h[j] => i = j

C21_Witness ==
  /\ pop = "GetRecords"
  /\ pargs = <<FormatOAIDC>>
  /\ PageRecords = <<"dc", "dc">>
  /\ pin.getRecord = Nil
  /\ Len(pout[2]) = 2
  /\ pout[2][1].At = 1
  /\ pout[2][2].At = 2

\* C26: GetResumptionToken returns the text of the token element of the
\* ListRecords payload, and "" without a ListRecords payload or a token
\* element; on "" the loop ends, whether the element is absent or empty.
C26_TokenOrEmpty ==
  pop \in {"GetResumptionToken", "AfterCallback"} =>
    /\ TokenElem # Nil => pout[2] = TokenElem[1]
    /\ TokenElem = Nil => pout[2] = ""
    /\ pop = "AfterCallback" =>
         IF TokenElem = Nil \/ TokenElem = Ptr("")
           THEN pout[3].pc = "Done"
           ELSE pout[3].pc = "Continuing" /\ pout[3].resumptionToken = TokenElem[1]

C26_Witness ==
  /\ pop = "AfterCallback"
  /\ TokenElem = Ptr("")
  /\ pout[2] = ""
  /\ pout[3].pc = "Done"

\* C29: GetRecords leaves out the records whose payload was not parsed, puts
\* the GetRecord record after the ListRecords records, and is as long as
\* ExtractAllBookMetadata / ExtractAllDCMetadata on the same response.
C29_RecordsMatchExtractAll ==
  pop = "ExtractAll" =>
    LET h == pout[2]
        parsed == {a \in 1..Len(PageRecords) : PageRecords[a] = WireKind}
        single == pin.getRecord # Nil /\ pin.getRecord[1] = WireKind
    IN /\ Len(h) = Cardinality(parsed) + (IF single THEN 1 ELSE 0)
       /\ Len(h) <= Len(PageRecords) + (IF pin.getRecord # Nil THEN 1 ELSE 0)
       /\ single => h[Len(h)].At = 0
       /\ \A i \in 1..Len(h) : h[i].At = 0 => (single /\ i = Len(h))
       /\ Len(pout[3]) = Len(h)

C29_Witness ==
  /\ pop = "ExtractAll"
  /\ pargs = <<FormatMARCXML>>
  /\ PageRecords = <<"marc", "dc">>
  /\ pin.getRecord = Ptr("marc")
  /\ Len(pout[2]) = 2
  /\ pout[2][2].At = 0
  /\ Len(pout[3]) = 2

\* ------------------------------------------------------------------ engine: further claims

\* C24: the first request of a call carries verb=ListRecords, then
\* metadataPrefix with the format tag, then from exactly when From is given
\* and non-empty and until exactly when Until is given and non-empty, and
\* nothing else.
C24_FirstRequest ==
  requests # <<>> =>
    LET u == requests[1]
        d == dateRangeArg
    IN /\ u[1] = <<"verb", "ListRecords">>
       /\ u[2] = <<"metadataPrefix", metadataPrefix>>
       /\ HasKey(u, "from") <=> (d # Nil /\ d[1].From # "")
       /\ HasKey(u, "until") <=> (d # Nil /\ d[1].Until # "")
       /\ HasKey(u, "from") => ValueOf(u, "from") = d[1].From
       /\ HasKey(u, "until") => ValueOf(u, "until") = d[1].Until
       /\ \A i \in 1..Len(u) : u[i][1] \in {"verb", "metadataPrefix", "from", "until"}
       /\ \A i, j \in 1..Len(u) : u[i][1] = u[j][1] => i = j

C24_Witness ==
  /\ ViaHarvest
  /\ dateRangeArg = Ptr([From |-> "2024-01-01", Until |-> ""])
  /\ requests = << << <<"verb", "ListRecords">>, <<"metadataPrefix", "oai_dc">>,
                      <<"from", "2024-01-01">> >> >>

\* The projection type of a format.
ProjectionOf(f) == IF f = FormatMARCXML THEN "BookMetadata" ELSE "DCMetadata"

\* C25: every handle of a page that Harvest(f, ...) hands to its callback
\* reports the format f and extracts to the projection type of f.
C25_FormatDiscriminant ==
  (ViaHarvest /\ pc = "Delivering") =>
    \A i \in 1..Len(GetRecords(resp[1])) :
      LET h == GetRecords(resp[1])[i]
      IN /\ GetFormat(h) = metadataPrefix
         /\ ExtractMetadata(h) # Nil
         /\ ExtractMetadata(h)[1].Type = ProjectionOf(metadataPrefix)

C25_Witness ==
  /\ ViaHarvest
  /\ pc = "Delivering"
  /\ metadataPrefix = FormatOAIDC
  /\ Len(GetRecords(resp[1])) = 2
  /\ GetFormat(GetRecords(resp[1])[2]) = FormatOAIDC

\* C27: a response in the hands of the callback, whatever the entry point, has
\* HasError() false and GetError() nil; an envelope with an error element has
\* made the call fail with the protocol error, undelivered.
C27_NoErrorEnvelopeDelivered ==
  /\ pc = "Delivering" =>
       /\ resp # Nil
       /\ ~HasError(resp[1])
       /\ GetError(resp[1]) = Nil
  /\ (lastOutcome # Nil /\ lastOutcome[1].wellFormed /\ lastOutcome[1].error # Nil) =>
       /\ pc = "Failed"
       /\ err = OAIError(lastOutcome[1].error[1])
       /\ Len(delivered) = Len(requests) - 1
       /\ Len(served) = Len(requests) - 1

C27_Witness ==
  /\ entry = "HarvestAllDC"
  /\ lastOutcome # Nil
  /\ lastOutcome[1].error = Ptr([Code |-> "badResumptionToken", Message |-> "bad resumption token"])
  /\ pc = "Failed"
  /\ Len(delivered) = 1

TokenOf(url) == IF HasKey(url, "resumptionToken") THEN ValueOf(url, "resumptionToken") ELSE ""

\* C28: Harvest is Done only after a page without a token; after any page with
\* a token and a nil callback result it goes on and asks with that token, also
\* when that token is the one the page was asked with.
C28_NoRepeatedTokenDetection ==
  ViaHarvest =>
    /\ pc = "Done" => (delivered # <<>> /\ delivered[Len(delivered)] = "")
    /\ \A k \in 1..Len(delivered) :
         (delivered[k] # "" /\ (k < Len(delivered) \/ cbErr = Nil)) =>
           \/ /\ k = Len(requests)
              /\ pc = "Continuing"
              /\ resumptionToken = delivered[k]
           \/ /\ k < Len(requests)
              /\ TokenOf(requests[k + 1]) = delivered[k]

C28_Witness ==
  /\ ViaHarvest
  /\ Len(requests) = 3
  /\ TokenOf(requests[2]) = "T1"
  /\ delivered = <<"T1", "T1">>
  /\ TokenOf(requests[3]) = "T1"
  /\ pc = "Fetching"

\* C30: HarvestAll and HarvestAllDC called with a non-empty prefix send a first
\* request with that prefix, registered or not, and never fail with the
\* unsupported-format error; Harvest with an unregistered prefix fails with it
\* and sends nothing.
C30_LegacyNoFormatCheck ==
  /\ (ViaLegacy /\ metadataPrefix # "") =>
       /\ requests # <<>>
       /\ requests[1] = << <<"verb", "ListRecords">>, <<"metadataPrefix", metadataPrefix>> >>
       /\ err # UnsupportedFormat(metadataPrefix)
       /\ err # Nil => err[1].msg[1] # "unsupported metadata format: "
  /\ (ViaHarvest /\ metadataPrefix \notin Registered) =>
       /\ requests = <<>>
       /\ pc = "Failed"
       /\ err = UnsupportedFormat(metadataPrefix)

C30_Witness ==
  /\ entry = "HarvestAll"
  /\ metadataPrefix = "unknown-format"
  /\ pc = "Delivering"
  /\ requests = << << <<"verb", "ListRecords">>, <<"metadataPrefix", "unknown-format">> >> >>

\* ------------------------------------------------------------------ a second call

\* A call as a value: the arguments of the entry point, the locals of its
\* loop, what it has sent and what its callback has been given.
NewCall(entryName, prefix, range, parserName) ==
  [pc |-> "Init", entry |-> entryName, metadataPrefix |-> prefix, dateRangeArg |-> range,
   parser |-> parserName, resumptionToken |-> "", dateRange |-> range, resp |-> Nil,
   err |-> Nil, requests |-> <<>>, served |-> <<>>, delivered |-> <<>>,
   observedRecords |-> 0]

\* harvestWithParser calling parser(metadataPrefix, resumptionToken, dateRange):
\* the request goes out, or the call returns the construction error.
CallSend(c, prefix, token, range) ==
  LET r == performListRecordsRequestURL(prefix, token, range)
  IN IF r.err # Nil
       THEN [c EXCEPT !.pc = "Failed", !.err = ReturnFetchError(r.err)]
     ELSE [c EXCEPT !.pc = "Fetching", !.requests = Append(@, r.url)]

\* Harvest up to its first request.
CallHarvest(prefix, range) ==
  IF HarvestDispatch(prefix) = Nil
    THEN [NewCall("Harvest", prefix, range, "") EXCEPT
            !.pc = "Failed", !.err = UnsupportedFormat(prefix)]
  ELSE CallSend(NewCall("Harvest", prefix, range, HarvestDispatch(prefix)[1]),
                prefix, "", range)

\* harvestWithParser when the transport answers: parse, fail or hand over.
CallReceive(c, o) ==
  LET r == CallParser(c.parser, o)
  IN IF r.err # Nil
       THEN [c EXCEPT !.pc = "Failed", !.err = ReturnFetchError(r.err)]
     ELSE [c EXCEPT !.pc = "Delivering", !.resp = r.resp,
                    !.served = Append(@, GetResumptionToken(r.resp[1]))]

\* harvestWithParser when the callback returns.
CallCallback(c, e) ==
  LET page == c.resp[1]
      seen == [c EXCEPT !.delivered = Append(@, GetResumptionToken(page)),
                        !.observedRecords = @ + Len(GetRecords(page)),
                        !.resp = Nil]
  IN IF e # Nil
       THEN [seen EXCEPT !.pc = "Failed", !.err = ReturnCallbackError(e[1])]
     ELSE LET n == AfterCallback(GetResumptionToken(page), c.resumptionToken, c.dateRange)
          IN [seen EXCEPT !.pc = n.pc, !.resumptionToken = n.resumptionToken,
                          !.dateRange = n.dateRange]

\* Mutant: the continuation token is kept in one place for all calls, so the
\* loop asks with the first call's token when that call holds one.
CallContinue_SharedToken(c) ==
  CallSend(c, c.metadataPrefix,
           IF resumptionToken # "" THEN resumptionToken ELSE c.resumptionToken,
           c.dateRange)

\* harvestWithParser starting its next iteration.
CallContinue(c) == CallSend(c, c.metadataPrefix, c.resumptionToken, c.dateRange)

\* HarvestAll / HarvestAllDC calling their parser with a nil date range.
LegacySend(c) ==
  LET r == performListRecordsRequestURL(c.metadataPrefix, c.resumptionToken, Nil)
  IN IF r.err # Nil
       THEN [c EXCEPT !.pc = "Failed", !.err = r.err]
     ELSE [c EXCEPT !.pc = "Fetching", !.requests = Append(@, r.url)]

\* HarvestAll up to its first request.
CallHarvestAll(prefix) ==
  LegacySend(NewCall("HarvestAll", prefix, Nil, "listRecordsRequestMARCXML"))

\* HarvestAllDC up to its first request.
CallHarvestAllDC(prefix) ==
  LegacySend(NewCall("HarvestAllDC", prefix, Nil, "listRecordsRequestDC"))

\* The legacy loops when the transport answers: parse, fail, assert the
\* concrete response type, hand over.
LegacyReceive(c, o) ==
  IF c.pc # "Fetching" THEN c
  ELSE LET r == IF c.entry = "HarvestAll" THEN listRecordsRequestMARCXML(o)
                ELSE listRecordsRequestDC(o)
           expected == IF c.entry = "HarvestAll" THEN "OAIPMHResponse" ELSE "OAIPMHResponseDC"
       IN IF r.err # Nil
            THEN [c EXCEPT !.pc = "Failed", !.err = r.err]
          ELSE IF r.resp[1].Type # expected
            THEN [c EXCEPT !.pc = "Failed", !.err = NewError(<<"unexpected response type">>)]
          ELSE [c EXCEPT !.pc = "Delivering", !.resp = r.resp,
                         !.served = Append(@, GetResumptionToken(r.resp[1]))]

\* Mutant: the legacy loops return the callback's error as it is.
LegacyCallback_Unwrapped(c, e) ==
  IF c.pc # "Delivering" THEN c
  ELSE LET page == c.resp[1]
           token == GetResumptionToken(page)
           seen == [c EXCEPT !.delivered = Append(@, token),
                             !.observedRecords = @ + Len(GetRecords(page)),
                             !.resp = Nil]
       IN IF e # Nil
            THEN [seen EXCEPT !.pc = "Failed", !.err = NewError(e[1])]
          ELSE IF token = "" THEN [seen EXCEPT !.pc = "Done"]
          ELSE [seen EXCEPT !.pc = "Continuing", !.resumptionToken = token]

\* The legacy loops when the callback returns: wrap its error, stop on an
\* empty token, else keep the token.
LegacyCallback(c, e) ==
  IF c.pc # "Delivering" THEN c
  ELSE LET page == c.resp[1]
           token == GetResumptionToken(page)
           seen == [c EXCEPT !.delivered = Append(@, token),
                             !.observedRecords = @ + Len(GetRecords(page)),
                             !.resp = Nil]
       IN IF e # Nil
            THEN [seen EXCEPT !.pc = "Failed", !.err = Errorf(<<"callback error: ">>, e[1])]
          ELSE IF token = "" THEN [seen EXCEPT !.pc = "Done"]
          ELSE [seen EXCEPT !.pc = "Continuing", !.resumptionToken = token]

\* The legacy loops starting their next iteration.
LegacyContinue(c) == IF c.pc # "Continuing" THEN c ELSE LegacySend(c)

\* ------------------------------------------------------------------ legacy and unified call, side by side

\* Harvest(p, nil, cb) and the legacy entry point of p are called on the same
\* repository with the same callback.
CompatCall(p) ==
  /\ Harvest(p, Nil)
  /\ peer' = Ptr(IF p = FormatMARCXML THEN CallHarvestAll(p) ELSE CallHarvestAllDC(p))

\* The repository gives both the same answer to their current request.
CompatReceive(o) ==
  /\ ReceiveResponse(o)
  /\ peer' = Ptr(LegacyReceive(peer[1], o))

\* The callback gives both the same result for their current page.
CompatCallback(e) ==
  /\ CallbackReturn(e)
  /\ peer' = Ptr(LegacyCallback(peer[1], e))

CompatContinue ==
  /\ NextIteration
  /\ peer' = Ptr(LegacyContinue(peer[1]))

CompatNext ==
  \/ \E p \in {FormatMARCXML, FormatOAIDC} : CompatCall(p)
  \/ \E o \in (IF Len(requests) < MaxPages THEN OutcomesMore ELSE OutcomesLast) :
        CompatReceive(o)
  \/ \E e \in {Nil} \cup {Ptr(x) : x \in CallbackErrs} : CompatCallback(e)
  \/ CompatContinue

CompatSpec == Init /\ [][CompatNext]_vars

\* C22: against the same repository and with the same callback results,
\* HarvestAll("marcxml") and Harvest("marcxml", nil), and HarvestAllDC("oai_dc")
\* and Harvest("oai_dc", nil), are at every step at the same point, have sent
\* the same requests, have given their callback the same pages, and have
\* returned the same error or none.
C22_LegacyEquivalent ==
  peer # Nil =>
    /\ peer[1].entry = (IF metadataPrefix = FormatMARCXML THEN "HarvestAll" ELSE "HarvestAllDC")
    /\ peer[1].metadataPrefix = metadataPrefix
    /\ peer[1].pc = pc
    /\ peer[1].requests = requests
    /\ peer[1].resp = resp
    /\ peer[1].served = served
    /\ peer[1].delivered = delivered
    /\ peer[1].observedRecords = observedRecords
    /\ peer[1].err = err

C22_Witness ==
  /\ peer # Nil
  /\ peer[1].entry = "HarvestAllDC"
  /\ peer[1].pc = "Failed"
  /\ cbErr # Nil
  /\ peer[1].err = Errorf(<<"callback error: ">>, <<"stop harvesting for testing">>)
  /\ Len(peer[1].requests) = 2
  /\ peer[1].delivered = <<"T2", "">>

\* ------------------------------------------------------------------ two calls at once

\* The arguments of the two calls.
ConcArgsFirst == {<<FormatMARCXML, Ptr([From |-> "2024-01-01", Until |-> ""])>>,
                  <<FormatMARCXML, Nil>>}
ConcArgsSecond == {<<FormatOAIDC, Ptr([From |-> "", Until |-> "2024-12-31"])>>,
                   <<FormatOAIDC, Nil>>}

\* The answers of the repository: a transport failure, or a page without
\* records, with or without a token.
ConcAnswer(o) ==
  \/ o.kind = "neterr"
  \/ /\ o.kind = "body"
     /\ o.body[1].wellFormed
     /\ o.body[1].error = Nil
     /\ o.body[1].listRecords # Nil
     /\ o.body[1].listRecords[1].records = <<>>
     /\ o.body[1].listRecords[1].resumptionToken # Ptr("")

ConcOutcomesMore == {o \in OutcomesMore : ConcAnswer(o)}
ConcOutcomesLast == {o \in OutcomesLast : ConcAnswer(o)}

\* The second call is made.
PeerHarvest(prefix, range) ==
  /\ peer = Nil
  /\ peer' = Ptr(CallHarvest(prefix, range))
  /\ UNCHANGED <<cvars, pvars>>

\* The transport answers the second call's request.
PeerReceive(o) ==
  /\ peer # Nil
  /\ peer[1].pc = "Fetching"
  /\ peer' = Ptr(CallReceive(peer[1], o))
  /\ UNCHANGED <<cvars, pvars>>

\* The second call's callback returns.
PeerCallback(e) ==
  /\ peer # Nil
  /\ peer[1].pc = "Delivering"
  /\ peer' = Ptr(CallCallback(peer[1], e))
  /\ UNCHANGED <<cvars, pvars>>

\* The second call's loop starts its next iteration.
PeerContinue ==
  /\ peer # Nil
  /\ peer[1].pc = "Continuing"
  /\ peer' = Ptr(CallContinue(peer[1]))
  /\ UNCHANGED <<cvars, pvars>>

\* Two Harvest calls whose steps interleave in any order.
ConcNext ==
  \/ \E a \in ConcArgsFirst : Harvest(a[1], a[2]) /\ UNCHANGED peer
  \/ \E o \in (IF Len(requests) < MaxPages THEN ConcOutcomesMore ELSE ConcOutcomesLast) :
        ReceiveResponse(o) /\ UNCHANGED peer
  \/ \E e \in {Nil} \cup {Ptr(x) : x \in CallbackErrs} : CallbackReturn(e) /\ UNCHANGED peer
  \/ NextIteration /\ UNCHANGED peer
  \/ \E a \in ConcArgsSecond : PeerHarvest(a[1], a[2])
  \/ \E o \in (IF peer # Nil /\ Len(peer[1].requests) < MaxPages
                 THEN ConcOutcomesMore ELSE ConcOutcomesLast) : PeerReceive(o)
  \/ \E e \in {Nil} \cup {Ptr(x) : x \in CallbackErrs} : PeerCallback(e)
  \/ PeerContinue

ConcSpec == Init /\ [][ConcNext]_vars

\* The requests reqs of a call carry its format tag prefix, its date range
\* range, and as token that of the page it was served just before.
OwnRequests(reqs, prefix, range, pages) ==
  \A k \in 1..Len(reqs) :
    LET u == reqs[k]
    IN /\ k = 1 => HasKey(u, "metadataPrefix")
       /\ HasKey(u, "metadataPrefix") => ValueOf(u, "metadataPrefix") = prefix
       /\ HasKey(u, "from") => (range # Nil /\ ValueOf(u, "from") = range[1].From)
       /\ HasKey(u, "until") => (range # Nil /\ ValueOf(u, "until") = range[1].Until)
       /\ k > 1 => /\ HasKey(u, "resumptionToken")
                   /\ k - 1 <= Len(pages)
                   /\ ValueOf(u, "resumptionToken") = pages[k - 1]

\* The pages given to a call's callback are the pages served to that call.
OwnPages(given, pages) ==
  /\ Len(given) <= Len(pages)
  /\ \A k \in 1..Len(given) : given[k] = pages[k]

\* C23: under every interleaving of two Harvest calls, each call's requests
\* carry its own format tag, its own date range and the token of its own
\* previous page, and each callback is given the pages served to its call.
C23_CallsIndependent ==
  /\ OwnRequests(requests, metadataPrefix, dateRangeArg, served)
  /\ OwnPages(delivered, served)
  /\ peer # Nil =>
       /\ OwnRequests(peer[1].requests, peer[1].metadataPrefix, peer[1].dateRangeArg,
                      peer[1].served)
       /\ OwnPages(peer[1].delivered, peer[1].served)

C23_Witness ==
  /\ peer # Nil
  /\ pc = "Fetching"
  /\ dateRangeArg # Nil
  /\ Len(requests) = 2
  /\ TokenOf(requests[2]) = "T1"
  /\ peer[1].pc = "Fetching"
  /\ peer[1].dateRangeArg # Nil
  /\ Len(peer[1].requests) = 2
  /\ TokenOf(peer[1].requests[2]) = "T2"

====
